---- MODULE Spec2Model ----
(***************************************************************************)
(* Online polyline simplification (polysim-ts): Path, LineFitter,          *)
(* SimplePathHull, ErrorBox and PathSimplifier.                            *)
(*                                                                         *)
(* The TypeScript code computes with IEEE-754 doubles.  The model computes *)
(* the same expressions, in the order the code evaluates them, on binary64 *)
(* numbers with round-to-nearest-even (F, FAdd, FSub, FMul, FDiv below).   *)
(* The numbers cover the whole of binary64: both zeros, the subnormal      *)
(* numbers (gradual underflow), overflow to an infinity, both infinities   *)
(* and NaN.  Path points have small integer coordinates, so the prefix     *)
(* sums and the operands of per, side and intersect are integers that      *)
(* binary64 holds exactly; they are kept as integers.  Indices are 0-based *)
(* as in the code; At reads a 1-based TLA+ sequence at a 0-based index.    *)
(***************************************************************************)
EXTENDS Integers, Sequences, FiniteSets, TLC

\* ------------------------------------------------------------------------
\* Bounds and inputs
\* ------------------------------------------------------------------------

\* longest path the model builds
MaxLen == 5

\* longest path built where clearing and replaying is compared with a new path
MaxReplay == 4

\* longest path built where points are read by index
MaxRead == 3

\* most listeners registered where a client registers listeners of its own
MaxListeners == 3

\* longest path built from the corners of a square
MaxCross == 4

\* longest path built where a second simplifier is attached
MaxAttach == 3

\* longest path built where a simplifier is constructed on a path whose
\* segments cross
MaxBuilt == 4

\* longest polyline offered to a stand-alone hull
MaxOffer == 5

\* points that may be offered to a stand-alone hull
HullPoints == (0..2) \X (0..2)

\* points appended where clearing and replaying is compared with a new path
ReplayPoints == { <<0, 0>>, <<5, 0>>, <<10, 0>>, <<10, 10>> }

\* points that may be appended to the path
Points == { <<0, 0>>, <<5, 0>>, <<10, 10>> }

\* thresholds a simplifier may be constructed with
Thresholds == { 1, 3 }

\* points appended where points are read by index
ReadPoints == { <<0, 0>>, <<5, 0>> }

\* the corners of a square, whose diagonals cross
CrossPoints == { <<0, 0>>, <<10, 0>>, <<10, 10>>, <<0, 10>> }

\* points appended where a second simplifier is attached to the path
AttachPoints == { <<0, 0>>, <<5, 0>>, <<10, 10>> }

\* thresholds the second simplifier may be constructed with
AttachThresholds == { -1, 0, 3 }

\* largest coefficient of the normals of lines compared with a fitted line
MaxNormal == 2

\* largest x coordinate of the end points of tested segments
GridMax == 3

\* end points of the segments tested for intersection
GridPoints == (0..GridMax) \X (0..1)

\* ------------------------------------------------------------------------
\* The code's number type: IEEE-754 binary64, round to nearest, ties to even
\*
\* A finite non-zero number is << s, e, a, b, c, d >>: sign s (1 or -1),
\* exponent e, and the limbs a, b, c, d (least significant first, base
\* 2^14) of a 53-bit integer m in [2^52, 2^53); the number is s * m * 2^e.
\* A subnormal number is held the same way (its m ends in zero bits), so
\* e runs from MinExp - 52 to MaxExp.  A zero is << 0, s, 0, 0, 0, 0 >> and
\* an infinity is << 2, s, 0, 0, 0, 0 >> with the sign s (1 or -1); NaN is
\* << 2, 0, 0, 0, 0, 0 >>.
\* ------------------------------------------------------------------------

\* the base of the limbs
LimbBase == 128 * 128

PowersOfTwo == << 1, 2, 4, 8, 16, 32, 64, 128, 256, 512, 1024, 2048, 4096, 8192, 16384 >>

Pow2(k) == PowersOfTwo[k + 1]

\* the exponent of the lowest bit of the subnormal numbers
MinExp == -(1022 + 52)

\* the exponent of the lowest mantissa bit of the largest numbers
MaxExp == 1023 - 52

\* +0 and -0
Zero(s) == << 0, s, 0, 0, 0, 0 >>

FZero == Zero(1)

\* Infinity and -Infinity
Inf(s) == << 2, s, 0, 0, 0, 0 >>

NaN == << 2, 0, 0, 0, 0, 0 >>

isNaN(x) == x[1] = 2 /\ x[2] = 0

isInf(x) == x[1] = 2 /\ x[2] # 0

\* the sign of x: 1 or -1, and 0 for NaN
Sign(x) == IF x[1] = 0 \/ x[1] = 2 THEN x[2] ELSE x[1]

IAbs(x) == IF x < 0 THEN -x ELSE x

IMin(x, y) == IF x < y THEN x ELSE y

\* the number of bits of v
RECURSIVE Bits(_)
Bits(v) == IF v = 0 THEN 0 ELSE 1 + Bits(v \div 2)

\* the number with the limbs a, b, c, d where a may have reached the base:
\* the carry runs upwards, and a mantissa of 2^53 is 2^52 with e + 1
Carried(s, e, a, b, c, d) ==
  IF a < LimbBase THEN << s, e, a, b, c, d >>
  ELSE IF b + 1 < LimbBase THEN << s, e, 0, b + 1, c, d >>
  ELSE IF c + 1 < LimbBase THEN << s, e, 0, 0, c + 1, d >>
  ELSE IF d + 1 < 2048 THEN << s, e, 0, 0, 0, d + 1 >>
  ELSE << s, e + 1, 0, 0, 0, 1024 >>

\* rounding with no bound on the exponent: a, b, c, d are the limbs of a
\* 56-bit integer x in [2^55, 2^56), its three lowest bits being the guard,
\* round and sticky bits; the result is the 53-bit number nearest to
\* s * x * 2^e, a tie going to the even mantissa
Nearest(s, e, a, b, c, d) ==
  IF (a % 8 > 4) \/ (a % 16 = 12)
  THEN Carried(s, e + 3, (a \div 8) + (b % 8) * 2048 + 1, (b \div 8) + (c % 8) * 2048,
               (c \div 8) + (d % 8) * 2048, d \div 8)
  ELSE << s, e + 3, (a \div 8) + (b % 8) * 2048, (b \div 8) + (c % 8) * 2048,
          (c \div 8) + (d % 8) * 2048, d \div 8 >>

\* x shifted left by r bits (hi = 2^r, lo = 2^(14-r)), then rounded
ShiftedLeft(s, e, r, hi, lo, a, b, c, d) ==
  Nearest(s, e - r, (a % lo) * hi, (b % lo) * hi + (a \div lo),
          (c % lo) * hi + (b \div lo), (d % lo) * hi + (c \div lo))

\* s * x * 2^e for any x # 0 below 2^56: x is shifted up into [2^55, 2^56)
RECURSIVE Normalised(_, _, _, _, _, _)
Normalised(s, e, a, b, c, d) ==
  IF d = 0 THEN Normalised(s, e - 14, 0, a, b, c)
  ELSE IF d >= 8192 THEN Nearest(s, e, a, b, c, d)
  ELSE ShiftedLeft(s, e, 14 - Bits(d), Pow2(14 - Bits(d)), Pow2(Bits(d)), a, b, c, d)

\* the limbs a, b, c, d shifted right by r bits (lo = 2^r, hi = 2^(14-r)),
\* the lowest bit set when st holds or a non-zero bit is shifted out
ShiftedBits(lo, hi, a, b, c, d, st) ==
  << (a \div lo) + (b % lo) * hi
       + (IF (st \/ a % lo # 0) /\ (a \div lo) % 2 = 0 THEN 1 ELSE 0),
     (b \div lo) + (c % lo) * hi, (c \div lo) + (d % lo) * hi, d \div lo >>

\* the limbs a, b, c, d shifted right by n bits, sticky
ShiftedRight(n, a, b, c, d) ==
  IF n >= 56 THEN << 1, 0, 0, 0 >>
  ELSE IF n < 14 THEN ShiftedBits(Pow2(n), Pow2(14 - n), a, b, c, d, FALSE)
  ELSE IF n < 28 THEN ShiftedBits(Pow2(n - 14), Pow2(28 - n), b, c, d, 0, a # 0)
  ELSE IF n < 42 THEN ShiftedBits(Pow2(n - 28), Pow2(42 - n), c, d, 0, 0, a # 0 \/ b # 0)
  ELSE ShiftedBits(Pow2(n - 42), Pow2(56 - n), d, 0, 0, 0, a # 0 \/ b # 0 \/ c # 0)

\* s * x * 2^e for x # 0 below 2^56 whose lowest limb a may have reached
\* the base
CarriedUp(s, e, a, b, c, d) ==
  IF a < LimbBase THEN Normalised(s, e, a, b, c, d)
  ELSE IF b + 1 < LimbBase THEN Normalised(s, e, 0, b + 1, c, d)
  ELSE IF c + 1 < LimbBase THEN Normalised(s, e, 0, 0, c + 1, d)
  ELSE Normalised(s, e, 0, 0, 0, d + 1)

\* gradual underflow: x holds the limbs of a magnitude in units of
\* 2^(MinExp - 3); it is rounded to a multiple of 2^MinExp, a tie going to
\* the even multiple, and a result of 0 keeps the sign
Subnormal(s, x) ==
  IF x[1] <= 4 /\ x[2] = 0 /\ x[3] = 0 /\ x[4] = 0 THEN Zero(s)
  ELSE CarriedUp(s, MinExp - 3,
                 (x[1] \div 8) * 8 + (IF (x[1] % 8 > 4) \/ (x[1] % 16 = 12) THEN 8 ELSE 0),
                 x[2], x[3], x[4])

\* overflow: a number beyond the largest one is an infinity
Ranged(x) == IF x[2] > MaxExp THEN Inf(x[1]) ELSE x

\* rounding: a, b, c, d are the limbs of a 56-bit integer x in [2^55, 2^56),
\* its three lowest bits being the guard, round and sticky bits; the result
\* is the binary64 number nearest to s * x * 2^e
Rounded(s, e, a, b, c, d) ==
  IF e + 3 < MinExp THEN Subnormal(s, ShiftedRight(MinExp - 3 - e, a, b, c, d))
  ELSE Ranged(Nearest(s, e, a, b, c, d))

\* Rounded, the lowest bit set when a non-zero bit was dropped below it
RoundedSticky(s, e, sticky, a, b, c, d) ==
  Rounded(s, e, IF sticky /\ a % 2 = 0 THEN a + 1 ELSE a, b, c, d)

\* the number of an integer n
F(n) ==
  IF n = 0 THEN FZero
  ELSE Normalised(IF n < 0 THEN -1 ELSE 1, 0, IAbs(n) % LimbBase,
                  (IAbs(n) \div LimbBase) % LimbBase, IAbs(n) \div (LimbBase * LimbBase), 0)

\* -x
FNeg(x) ==
  IF x[1] = 0 \/ x[1] = 2 THEN << x[1], -x[2], 0, 0, 0, 0 >>
  ELSE << -x[1], x[2], x[3], x[4], x[5], x[6] >>

\* abs(x)
FAbs(x) ==
  IF x[1] = 0 \/ x[1] = 2 THEN << x[1], x[2] * x[2], 0, 0, 0, 0 >>
  ELSE << 1, x[2], x[3], x[4], x[5], x[6] >>

\* |x| < |y| for finite non-zero x and y
MagLess(x, y) ==
  IF x[2] # y[2] THEN x[2] < y[2]
  ELSE IF x[6] # y[6] THEN x[6] < y[6]
  ELSE IF x[5] # y[5] THEN x[5] < y[5]
  ELSE IF x[4] # y[4] THEN x[4] < y[4]
  ELSE x[3] < y[3]

\* |x| < |y| for non-zero x and y of which either may be an infinity
MagLessInf(x, y) ==
  IF x[1] = 2 THEN FALSE ELSE IF y[1] = 2 THEN TRUE ELSE MagLess(x, y)

\* x < y for x and y other than NaN, with -0 equal to +0
Less(x, y) ==
  IF x[1] = 0 /\ y[1] = 0 THEN FALSE
  ELSE IF x[1] = 0 THEN Sign(y) = 1
  ELSE IF y[1] = 0 THEN Sign(x) = -1
  ELSE IF Sign(x) # Sign(y) THEN Sign(x) < Sign(y)
  ELSE IF Sign(x) = 1 THEN MagLessInf(x, y) ELSE MagLessInf(y, x)

\* x < y; false when either is a NaN
FLess(x, y) == IF isNaN(x) \/ isNaN(y) THEN FALSE ELSE Less(x, y)

\* x <= y; false when either is a NaN
FLeq(x, y) == IF isNaN(x) \/ isNaN(y) THEN FALSE ELSE ~Less(y, x)

\* Math.max(x, y): NaN when either is a NaN, and +0 above -0
FMax(x, y) ==
  IF isNaN(x) \/ isNaN(y) THEN NaN
  ELSE IF Less(x, y) THEN y
  ELSE IF Less(y, x) THEN x
  ELSE IF x[1] = 0 /\ x[2] < y[2] THEN y ELSE x

\* Math.min(x, y): NaN when either is a NaN, and -0 below +0
FMin(x, y) ==
  IF isNaN(x) \/ isNaN(y) THEN NaN
  ELSE IF Less(y, x) THEN y
  ELSE IF Less(x, y) THEN x
  ELSE IF x[1] = 0 /\ y[2] < x[2] THEN y ELSE x

FMax5(a, b, c, d, e) == FMax(FMax(FMax(FMax(a, b), c), d), e)

FMin5(a, b, c, d, e) == FMin(FMin(FMin(FMin(a, b), c), d), e)

\* The product of two mantissas has limbs 0..7.  p0..p6 are the sums of the
\* limb products of each weight; MulCarry0..6 carry them into limbs, keeping
\* of limbs 0..2 only whether they are non-zero (st), and MulRounded shifts
\* the product, which is in [2^104, 2^106), down to 56 bits.
MulRounded(s, e, st, l3, l4, l5, l6, l7) ==
  IF l7 >= 128
  THEN RoundedSticky(s, e + 50, st \/ l3 % 256 # 0,
                     (l3 \div 256) + (l4 % 256) * 64, (l4 \div 256) + (l5 % 256) * 64,
                     (l5 \div 256) + (l6 % 256) * 64, (l6 \div 256) + (l7 % 256) * 64)
  ELSE RoundedSticky(s, e + 49, st \/ l3 % 128 # 0,
                     (l3 \div 128) + (l4 % 128) * 128, (l4 \div 128) + (l5 % 128) * 128,
                     (l5 \div 128) + (l6 % 128) * 128, (l6 \div 128) + (l7 % 128) * 128)

MulCarry6(s, e, st, l3, l4, l5, p6) ==
  MulRounded(s, e, st, l3, l4, l5, p6 % LimbBase, p6 \div LimbBase)

MulCarry5(s, e, st, l3, l4, p5, p6) ==
  MulCarry6(s, e, st, l3, l4, p5 % LimbBase, p6 + (p5 \div LimbBase))

MulCarry4(s, e, st, l3, p4, p5, p6) ==
  MulCarry5(s, e, st, l3, p4 % LimbBase, p5 + (p4 \div LimbBase), p6)

MulCarry3(s, e, st, p3, p4, p5, p6) ==
  MulCarry4(s, e, st, p3 % LimbBase, p4 + (p3 \div LimbBase), p5, p6)

MulCarry2(s, e, st, p2, p3, p4, p5, p6) ==
  MulCarry3(s, e, st \/ p2 % LimbBase # 0, p3 + (p2 \div LimbBase), p4, p5, p6)

MulCarry1(s, e, st, p1, p2, p3, p4, p5, p6) ==
  MulCarry2(s, e, st \/ p1 % LimbBase # 0, p2 + (p1 \div LimbBase), p3, p4, p5, p6)

MulCarry0(s, e, p0, p1, p2, p3, p4, p5, p6) ==
  MulCarry1(s, e, p0 % LimbBase # 0, p1 + (p0 \div LimbBase), p2, p3, p4, p5, p6)

\* x * y
FMul(x, y) ==
  IF isNaN(x) \/ isNaN(y) THEN NaN
  ELSE IF x[1] = 2 \/ y[1] = 2
  THEN IF x[1] = 0 \/ y[1] = 0 THEN NaN ELSE Inf(Sign(x) * Sign(y))
  ELSE IF x[1] = 0 \/ y[1] = 0 THEN Zero(Sign(x) * Sign(y))
  ELSE MulCarry0(x[1] * y[1], x[2] + y[2],
                 x[3] * y[3],
                 x[3] * y[4] + x[4] * y[3],
                 x[3] * y[5] + x[4] * y[4] + x[5] * y[3],
                 x[3] * y[6] + x[4] * y[5] + x[5] * y[4] + x[6] * y[3],
                 x[4] * y[6] + x[5] * y[5] + x[6] * y[4],
                 x[5] * y[6] + x[6] * y[5],
                 x[6] * y[6])

\* the sum or difference x of two aligned 56-bit mantissas, limbs carried
SumRounded(s, e, a, b, c, d) ==
  IF d >= LimbBase
  THEN RoundedSticky(s, e + 1, a % 2 # 0, (a \div 2) + (b % 2) * 8192,
                     (b \div 2) + (c % 2) * 8192, (c \div 2) + (d % 2) * 8192, d \div 2)
  ELSE IF d >= 8192 THEN Rounded(s, e, a, b, c, d)
  ELSE IF a = 0 /\ b = 0 /\ c = 0 /\ d = 0 THEN FZero
  ELSE Normalised(s, e, a, b, c, d)

SumCarry2(s, e, a, b, c, d) == SumRounded(s, e, a, b, c % LimbBase, d + (c \div LimbBase))

SumCarry1(s, e, a, b, c, d) == SumCarry2(s, e, a, b % LimbBase, c + (b \div LimbBase), d)

SumCarry0(s, e, a, b, c, d) == SumCarry1(s, e, a % LimbBase, b + (a \div LimbBase), c, d)

\* k is 1 for equal signs and -1 for opposite signs
AddAligned(s, e, k, a, b, c, d, ys) ==
  SumCarry0(s, e, a + k * ys[1], b + k * ys[2], c + k * ys[3], d + k * ys[4])

\* x + y for |x| >= |y|: both mantissas get three extra bits and y's is
\* shifted down to the exponent of x
AddOrdered(x, y) ==
  AddAligned(x[1], x[2] - 3, x[1] * y[1],
             (x[3] % 2048) * 8, (x[4] % 2048) * 8 + (x[3] \div 2048),
             (x[5] % 2048) * 8 + (x[4] \div 2048), x[6] * 8 + (x[5] \div 2048),
             ShiftedRight(x[2] - y[2],
                          (y[3] % 2048) * 8, (y[4] % 2048) * 8 + (y[3] \div 2048),
                          (y[5] % 2048) * 8 + (y[4] \div 2048), y[6] * 8 + (y[5] \div 2048)))

\* x + y
FAdd(x, y) ==
  IF isNaN(x) \/ isNaN(y) THEN NaN
  ELSE IF x[1] = 2 THEN IF y[1] = 2 /\ y[2] # x[2] THEN NaN ELSE x
  ELSE IF y[1] = 2 THEN y
  ELSE IF x[1] = 0 THEN IF y[1] = 0 /\ y[2] # x[2] THEN FZero ELSE y
  ELSE IF y[1] = 0 THEN x
  ELSE IF MagLess(x, y) THEN AddOrdered(y, x) ELSE AddOrdered(x, y)

\* x - y
FSub(x, y) == FAdd(x, FNeg(y))

\* the limbs of v * q, five of them
TimesCarry3(a, b, c, d) == << a, b, c, d % LimbBase, d \div LimbBase >>

TimesCarry2(a, b, c, d) == TimesCarry3(a, b, c % LimbBase, d + (c \div LimbBase))

TimesCarry1(a, b, c, d) == TimesCarry2(a, b % LimbBase, c + (b \div LimbBase), d)

Times(v, q) ==
  TimesCarry1((v[1] * q) % LimbBase, v[2] * q + ((v[1] * q) \div LimbBase), v[3] * q, v[4] * q)

\* x < y for integers of five limbs
Less5(x, y) ==
  IF x[5] # y[5] THEN x[5] < y[5]
  ELSE IF x[4] # y[4] THEN x[4] < y[4]
  ELSE IF x[3] # y[3] THEN x[3] < y[3]
  ELSE IF x[2] # y[2] THEN x[2] < y[2]
  ELSE x[1] < y[1]

\* a quotient digit q followed by the four limbs of the remainder
RestCarry3(q, a, b, c, d) == << q, a, b, c, d % LimbBase >>

RestCarry2(q, a, b, c, d) == RestCarry3(q, a, b, c % LimbBase, d + (c \div LimbBase))

RestCarry1(q, a, b, c, d) == RestCarry2(q, a, b % LimbBase, c + (b \div LimbBase), d)

RestCarry0(q, a, b, c, d) == RestCarry1(q, a % LimbBase, b + (a \div LimbBase), c, d)

\* long division, one digit: the greatest q with v * q <= w, at most the
\* estimate q, where t = v * q
RECURSIVE Digit(_, _, _, _)
Digit(w, v, q, t) ==
  IF Less5(w, t) THEN Digit(w, v, q - 1, Times(v, q - 1))
  ELSE RestCarry0(q, w[1] - t[1], w[2] - t[2], w[3] - t[3],
                  (w[4] - t[4]) + (w[5] - t[5]) * LimbBase)

Estimated(w, v, q) == Digit(w, v, q, Times(v, q))

\* the digit of (a, b, c, d) * 2^14 divided by v, with the remainder
DivStep(a, b, c, d, v) ==
  Estimated(<< 0, a, b, c, d >>, v, IMin((d * LimbBase + c) \div v[4], LimbBase - 1))

DivRounded(s, e, q1, q2, q3, r) ==
  RoundedSticky(s, e, r[2] # 0 \/ r[3] # 0 \/ r[4] # 0 \/ r[5] # 0, r[1], q3, q2, q1)

DivDigit3(s, e, q1, q2, r, v) ==
  DivRounded(s, e, q1, q2, r[1], DivStep(r[2], r[3], r[4], r[5], v))

DivDigit2(s, e, q1, r, v) == DivDigit3(s, e, q1, r[1], DivStep(r[2], r[3], r[4], r[5], v), v)

DivDigit1(s, e, r, v) == DivDigit2(s, e, r[1], DivStep(r[2], r[3], r[4], r[5], v), v)

\* the quotient of two 56-bit mantissas u = (a, b, c, d) and v to 56 bits:
\* four digits of u * 2^56 / v, u halved first when it is not below v
DivAligned(s, e, a, b, c, d, v) ==
  IF Less5(<< a, b, c, d, 0 >>, << v[1], v[2], v[3], v[4], 0 >>)
  THEN DivDigit1(s, e - 56, DivStep(a, b, c, d, v), v)
  ELSE DivDigit1(s, e - 55,
                 DivStep((a \div 2) + (b % 2) * 8192, (b \div 2) + (c % 2) * 8192,
                         (c \div 2) + (d % 2) * 8192, d \div 2, v), v)

\* x / y; a division by zero gives an infinity, or NaN for 0 / 0
FDiv(x, y) ==
  IF isNaN(x) \/ isNaN(y) THEN NaN
  ELSE IF x[1] = 2 THEN IF y[1] = 2 THEN NaN ELSE Inf(Sign(x) * Sign(y))
  ELSE IF y[1] = 2 THEN Zero(Sign(x) * Sign(y))
  ELSE IF y[1] = 0 THEN IF x[1] = 0 THEN NaN ELSE Inf(Sign(x) * Sign(y))
  ELSE IF x[1] = 0 THEN Zero(Sign(x) * Sign(y))
  ELSE DivAligned(x[1] * y[1], x[2] - y[2],
                  (x[3] % 2048) * 8, (x[4] % 2048) * 8 + (x[3] \div 2048),
                  (x[5] % 2048) * 8 + (x[4] \div 2048), x[6] * 8 + (x[5] \div 2048),
                  << (y[3] % 2048) * 8, (y[4] % 2048) * 8 + (y[3] \div 2048),
                     (y[5] % 2048) * 8 + (y[4] \div 2048), y[6] * 8 + (y[5] \div 2048) >>)

\* isFinite(x)
isFinite(x) == x[1] # 2

\* a point with integer coordinates as a PVector of numbers
FP(p) == << F(p[1]), F(p[2]) >>

At(s, i) == s[i + 1]

\* ------------------------------------------------------------------------
\* math.ts: PVector and Geometry (integer points)
\* ------------------------------------------------------------------------

per(u, v) == u[1] * v[2] - v[1] * u[2]

span(a, b) == << b[1] - a[1], b[2] - a[2] >>

magSq(u) == u[1] * u[1] + u[2] * u[2]

\* PVector.dot, u of numbers and v of integers
dot(u, v) == FAdd(FMul(u[1], F(v[1])), FMul(u[2], F(v[2])))

side(a, b, p) == per(span(a, b), span(a, p))

intersect(a, b, c, d) ==
  LET ab  == span(a, b)
      ac  == span(a, c)
      ad  == span(a, d)
      sab == per(ab, ac) * per(ab, ad)
      cd  == span(c, d)
      cb  == span(c, b)
      scd == per(cd, ac) * per(cd, cb)
  IN  IF sab > 0 THEN FALSE
      ELSE IF scd < 0 THEN FALSE
      ELSE IF sab = 0 /\ scd = 0
           THEN magSq(ac) <= magSq(ab) \/ magSq(ad) < magSq(ab)
      ELSE TRUE

\* ------------------------------------------------------------------------
\* line.ts: Line = [a, b, c]
\* ------------------------------------------------------------------------

Line(a, b, c) == [a |-> a, b |-> b, c |-> c]

\* a*a + b*b
NormSq(l) == FAdd(FMul(l.a, l.a), FMul(l.b, l.b))

tangent(l) == << FNeg(l.b), l.a >>

\* the s coordinate of map: c2 is c / c1 - t
mapS(l, p, c2) ==
  IF FLess(FAbs(l.b), FAbs(l.a))
  THEN FDiv(FAdd(p[2], FMul(l.b, c2)), l.a)
  ELSE FNeg(FDiv(FAdd(p[1], FMul(l.a, c2)), l.b))

\* the LVector of map: c1 is a*a + b*b and t the signed distance
mapST(l, p, c1, t) == << mapS(l, p, FSub(FDiv(l.c, c1), t)), t >>

mapT(l, p, c1) ==
  mapST(l, p, c1, FDiv(FAdd(FAdd(FMul(l.a, p[1]), FMul(l.b, p[2])), l.c), c1))

\* the result is the LVector <<s, t>>
map(l, p) == mapT(l, p, NormSq(l))

\* the PVector of unmapc: c1 is t - c / (a*a + b*b)
unmapcXY(l, s, c1) ==
  << FSub(FMul(c1, l.a), FMul(s, l.b)), FAdd(FMul(c1, l.b), FMul(s, l.a)) >>

unmapc(l, s, t) == unmapcXY(l, s, FSub(t, FDiv(l.c, NormSq(l))))

remapc(l, other, s, t) == map(l, unmapc(other, s, t))

\* p moved by t along the normal of l
projectAlong(p, l, t) == << FAdd(p[1], FMul(t, l.a)), FAdd(p[2], FMul(t, l.b)) >>

\* math.ts Geometry.project
project(p, l) ==
  projectAlong(p, l, FNeg(FDiv(FAdd(FAdd(FMul(l.a, p[1]), FMul(l.b, p[2])), l.c), NormSq(l))))

\* return swapResult ? new PVector(x2, x1) : new PVector(x1, x2)
solved(swapResult, x1, x2) == IF swapResult THEN << x2, x1 >> ELSE << x1, x2 >>

\* x1 = (b1 - a12 * x2) / a11
back(swapResult, a11, a12, rb1, x2) ==
  solved(swapResult, FDiv(FSub(rb1, FMul(a12, x2)), a11), x2)

\* x2 = b2 / a22
solve(swapResult, a11, a12, rb1, e22, e2) ==
  back(swapResult, a11, a12, rb1, FDiv(e2, e22))

\* a22 -= a12 * a21 / a11; b2 -= b1 * a21 / a11
eliminate(swapResult, a11, a12, a21, a22, rb1, rb2) ==
  solve(swapResult, a11, a12, rb1,
        FSub(a22, FDiv(FMul(a12, a21), a11)),
        FSub(rb2, FDiv(FMul(rb1, a21), a11)))

\* the columns swapped when |a11| < |a12|
columns(swapResult, r11, r12, r21, r22, rb1, rb2) ==
  eliminate(swapResult,
            IF swapResult THEN r12 ELSE r11, IF swapResult THEN r11 ELSE r12,
            IF swapResult THEN r22 ELSE r21, IF swapResult THEN r21 ELSE r22,
            rb1, rb2)

pivot(r11, r12, r21, r22, rb1, rb2) ==
  columns(FLess(FAbs(r11), FAbs(r12)), r11, r12, r21, r22, rb1, rb2)

\* the rows swapped when the second holds the larger coefficient
rows(l1, l2, swapRows) ==
  pivot(IF swapRows THEN l2.a ELSE l1.a, IF swapRows THEN l2.b ELSE l1.b,
        IF swapRows THEN l1.a ELSE l2.a, IF swapRows THEN l1.b ELSE l2.b,
        IF swapRows THEN FNeg(l2.c) ELSE FNeg(l1.c),
        IF swapRows THEN FNeg(l1.c) ELSE FNeg(l2.c))

\* math.ts Geometry.intersection: Gaussian elimination with full pivoting
intersection(l1, l2) ==
  rows(l1, l2, FLess(FMax(FAbs(l1.a), FAbs(l1.b)), FMax(FAbs(l2.a), FAbs(l2.b))))

\* PVector.isSingular
isSingular(p) == ~(isFinite(p[1]) /\ isFinite(p[2]))

magSqOf(dx, dy) == FAdd(FMul(dx, dx), FMul(dy, dy))

distSq(a, b) == magSqOf(FSub(a[1], b[1]), FSub(a[2], b[2]))

\* ------------------------------------------------------------------------
\* line_fitter.ts: LineFitter (prefix sums, least-squares line)
\* ------------------------------------------------------------------------

\* the five prefix-sum arrays after LineFitter.onClear
EmptySums == [X |-> << 0 >>, Y |-> << 0 >>, XX |-> << 0 >>, YY |-> << 0 >>, XY |-> << 0 >>]

\* onAddPoint pushing x * x to sumsXY
FitterOnAddPointSquaresX(sums, i, p) ==
  [X  |-> Append(sums.X,  At(sums.X,  i) + p[1]),
   Y  |-> Append(sums.Y,  At(sums.Y,  i) + p[2]),
   XX |-> Append(sums.XX, At(sums.XX, i) + p[1] * p[1]),
   YY |-> Append(sums.YY, At(sums.YY, i) + p[2] * p[2]),
   XY |-> Append(sums.XY, At(sums.XY, i) + p[1] * p[1])]

\* LineFitter.onAddPoint: i is the fitter's pathLength before the call
FitterOnAddPoint(sums, i, p) ==
  [X  |-> Append(sums.X,  At(sums.X,  i) + p[1]),
   Y  |-> Append(sums.Y,  At(sums.Y,  i) + p[2]),
   XX |-> Append(sums.XX, At(sums.XX, i) + p[1] * p[1]),
   YY |-> Append(sums.YY, At(sums.YY, i) + p[2] * p[2]),
   XY |-> Append(sums.XY, At(sums.XY, i) + p[1] * p[2])]

\* LineFitter.rangeSum.  The sums of integer coordinates are integers that
\* binary64 holds exactly, and none is -0: the first sum is +0, and a sum
\* or difference of two numbers is -0 only when both are zeros.
rangeSum(s, i, j) == At(s, j + 1) - At(s, i)

IMax(x, y) == IF x < y THEN y ELSE x

\* Number.EPSILON = 2^-52
Epsilon == << 1, -(52 + 52), 0, 0, 0, 1024 >>

\* max(n * sumSq - sum * sum, 0): fa of sumXX and sumX, fb of sumYY and sumY
variance(sum, sumSq, n) ==
  FMax(FSub(FMul(F(n), F(sumSq)), FMul(F(sum), F(sum))), F(0))

\* sumX * sumY - n * sumXY
covariance(sumX, sumY, sumXY, n) ==
  FSub(FMul(F(sumX), F(sumY)), FMul(F(n), F(sumXY)))

\* the line x + b y + c = 0 of the branch fa < fb: c = -(sumY * b + sumX) / n
steepLine(sumX, sumY, n, b) ==
  Line(F(1), b, FDiv(FNeg(FAdd(FMul(F(sumY), b), F(sumX))), F(n)))

\* the line a x + y + c = 0 of the other branch: c = -(sumX * a + sumY) / n
flatLine(sumX, sumY, n, a) ==
  Line(a, F(1), FDiv(FNeg(FAdd(FMul(F(sumX), a), F(sumY))), F(n)))

\* the line returned for the variance terms fa and fb
fittedTo(sumX, sumY, sumXY, n, fa, fb) ==
  IF FLeq(fa, Epsilon) /\ FLeq(fb, Epsilon)
  THEN Line(F(-1), F(-1), FDiv(FAdd(F(sumX), F(sumY)), F(n)))
  ELSE IF FLess(fa, fb)
  THEN steepLine(sumX, sumY, n, FDiv(covariance(sumX, sumY, sumXY, n), fb))
  ELSE flatLine(sumX, sumY, n, FDiv(covariance(sumX, sumY, sumXY, n), fa))

\* static LineFitter.fitLine, every product, difference and quotient a
\* binary64 operation on the sums
fitLineSums(sumX, sumY, sumXX, sumYY, sumXY, n) ==
  IF n <= 0 THEN Line(F(1), F(-1), F(0))
  ELSE fittedTo(sumX, sumY, sumXY, n, variance(sumX, sumXX, n), variance(sumY, sumYY, n))

\* LineFitter.fitLine(i, j)
fitLine(sums, i, j) ==
  fitLineSums(rangeSum(sums.X, i, j), rangeSum(sums.Y, i, j),
              rangeSum(sums.XX, i, j), rangeSum(sums.YY, i, j),
              rangeSum(sums.XY, i, j), j - i + 1)

\* ------------------------------------------------------------------------
\* path_simplifier.ts: ErrorBox = [line, s0, s1, t0, t1]
\* ------------------------------------------------------------------------

\* the box around the single LVector l
around(line, l) == [line |-> line, s0 |-> l[1], s1 |-> l[1], t0 |-> l[2], t1 |-> l[2]]

\* constructor
ErrorBox(line, p) == around(line, map(line, p))

\* the corners (s0, t0), (s0, t1), (s1, t0), (s1, t1) of the box
corners(box) ==
  << << box.s0, box.t0 >>, << box.s0, box.t1 >>, << box.s1, box.t0 >>, << box.s1, box.t1 >> >>

\* line.remapc(this.line, s, t) for each corner from the k-th on
RECURSIVE remapped(_, _, _, _)
remapped(line, other, cs, k) ==
  IF k > Len(cs) THEN << >>
  ELSE << remapc(line, other, cs[k][1], cs[k][2]) >> \o remapped(line, other, cs, k + 1)

\* the box of the new point's LVector l and the four remapped corners r
bound(line, l, r) ==
  [line |-> line,
   s0 |-> FMin5(l[1], r[1][1], r[2][1], r[3][1], r[4][1]),
   s1 |-> FMax5(l[1], r[1][1], r[2][1], r[3][1], r[4][1]),
   t0 |-> FMin5(l[2], r[1][2], r[2][2], r[3][2], r[4][2]),
   t1 |-> FMax5(l[2], r[1][2], r[2][2], r[3][2], r[4][2])]

\* extend that forgets the corners of the box held so far
extendPointOnly(box, line, p) == around(line, map(line, p))

extend(box, line, p) ==
  bound(line, map(line, p), remapped(line, box.line, corners(box), 1))

\* error() taking the nearer side of the box instead of the farther one
errorNearSide(box) ==
  FMul(FMin(FMul(box.t0, box.t0), FMul(box.t1, box.t1)), NormSq(box.line))

error(box) ==
  FMul(FMax(FMul(box.t0, box.t0), FMul(box.t1, box.t1)), NormSq(box.line))

\* ------------------------------------------------------------------------
\* simple_path_hull.ts: SimplePathHull = [nodes, first, size]
\* nodes is the arena of every node ever made, addressed 1..Len(nodes);
\* 0 stands for undefined.
\* ------------------------------------------------------------------------

EmptyHull == [nodes |-> << >>, first |-> 0, size |-> 0]

\* SimplePathHull.makeNode: the new node is Len(nodes) + 1; prev / next = 0
\* stand for the omitted arguments
makeNode(nodes, pos, prev, next) ==
  LET id == Len(nodes) + 1
      pv == IF prev = 0 THEN id ELSE prev
      nx == IF next = 0 THEN id ELSE next
      n1 == Append(nodes, [pos |-> pos, prev |-> pv, next |-> nx, isValid |-> TRUE])
      n2 == [n1 EXCEPT ![nx].prev = id]
  IN  [n2 EXCEPT ![pv].next = id]

\* while (n0.prev != first && side(n0.pos, n0.prev.pos, p) >= 0) n0 = n0.prev
RECURSIVE walkPrev(_, _, _, _)
walkPrev(nodes, first, n0, p) ==
  IF nodes[n0].prev # first /\ side(nodes[n0].pos, nodes[nodes[n0].prev].pos, p) >= 0
  THEN walkPrev(nodes, first, nodes[n0].prev, p)
  ELSE n0

\* the forward walk with the side test reversed
RECURSIVE walkNextReversed(_, _, _, _)
walkNextReversed(nodes, first, n1, p) ==
  IF nodes[n1].next # first /\ side(nodes[n1].pos, nodes[nodes[n1].next].pos, p) >= 0
  THEN walkNextReversed(nodes, first, nodes[n1].next, p)
  ELSE n1

\* while (n1.next != first && side(n1.pos, n1.next.pos, p) <= 0) n1 = n1.next
RECURSIVE walkNext(_, _, _, _)
walkNext(nodes, first, n1, p) ==
  IF nodes[n1].next # first /\ side(nodes[n1].pos, nodes[nodes[n1].next].pos, p) <= 0
  THEN walkNext(nodes, first, nodes[n1].next, p)
  ELSE n1

\* while (n != n1) { n.isValid = false; n = n.next; --size }
RECURSIVE evict(_, _, _)
evict(h, n, n1) ==
  IF n = n1 THEN h
  ELSE evict([h EXCEPT !.nodes[n].isValid = FALSE, !.size = @ - 1], h.nodes[n].next, n1)

\* SimplePathHull.offer: [hull, node], node = 0 for undefined.  Every
\* offered PVector is an object of its own, so first.pos === p holds exactly
\* when this call made the node that is now first.
offer(h, p) ==
  LET grown(nodes, size) ==
        [hull |-> [nodes |-> nodes, first |-> Len(nodes), size |-> size + 1],
         node |-> Len(nodes)]
  IN
  IF h.size >= 3 THEN
    LET insert(e, n0, n1) == grown(makeNode(e.nodes, p, n0, n1), e.size)
        between(n0, n1) ==
          IF n0 # n1
          THEN insert(evict(h, h.nodes[n0].next, n1), n0, n1)
          ELSE [hull |-> h, node |-> 0]
    IN  between(walkPrev(h.nodes, h.first, h.first, p),
                walkNext(h.nodes, h.first, h.first, p))
  ELSE IF h.size = 0 THEN grown(makeNode(h.nodes, p, 0, 0), h.size)
  ELSE IF h.size = 1 THEN grown(makeNode(h.nodes, p, h.first, h.first), h.size)
  ELSE
    LET first == h.nodes[h.first]
        bySide(s) ==
          IF s < 0 THEN grown(makeNode(h.nodes, p, h.first, first.next), h.size)
          ELSE IF s > 0 THEN grown(makeNode(h.nodes, p, first.prev, h.first), h.size)
          ELSE grown(makeNode([h.nodes EXCEPT ![h.first].isValid = FALSE],
                              p, first.prev, first.next), h.size - 1)
    IN  bySide(side(first.pos, h.nodes[first.next].pos, p))

\* ------------------------------------------------------------------------
\* path_simplifier.ts: PathSimplifier
\* ------------------------------------------------------------------------

\* PathSimplifier.isPioneer(line, n) on the hull arena nodes
isPioneer(line, nodes, n) ==
  IF ~nodes[n].isValid THEN FALSE
  ELSE
    LET sameSide(t) ==
          FLeq(FZero, FMul(dot(t, span(nodes[n].pos, nodes[nodes[n].prev].pos)),
                           dot(t, span(nodes[n].pos, nodes[nodes[n].next].pos))))
    IN  sameSide(tangent(line))

\* the cut test without the look at the flag set by earlier scans
cutTestNoFlag(ti, i, j, pts) ==
  i < j - 2 /\ intersect(At(pts, i), At(pts, i + 1), At(pts, j - 1), At(pts, j))

\* the condition of the first if of the loop: the segment starting at i is
\* already cut, or it is not next to segment [j-1, j] and intersects it
cutTest(ti, i, j, pts) ==
  ti.cut \/ (i < j - 2 /\ intersect(At(pts, i), At(pts, i + 1), At(pts, j - 1), At(pts, j)))

\* errorBox.error() > this.thresholdSq
overThreshold(box, thresholdSq) == FLess(thresholdSq, error(box))

\* the cut branch replacing the tag of i by a new one
cutBranchNewTag(st, ti, i, j) ==
  [st EXCEPT !.tags[i + 1] = [dist |-> 0, next |-> -1, cut |-> TRUE],
             !.cutBy[i + 1] = IF ti.cut THEN @ ELSE j,
             !.trace = Append(@, "cut")]

\* ti.cut = true; this.trace.push('cut'); break
cutBranch(st, ti, i, j) ==
  [st EXCEPT !.tags[i + 1].cut = TRUE,
             !.cutBy[i + 1] = IF ti.cut THEN @ ELSE j,
             !.trace = Append(@, "cut")]

\* the accepted index taken as next without its dist
closerKeepsDist(st, ti, i) ==
  IF ti.dist < st.dist THEN [st EXCEPT !.next = i] ELSE st

\* if (ti.dist < dist) { next = i; dist = ti.dist; }
closer(st, ti, i) ==
  IF ti.dist < st.dist THEN [st EXCEPT !.next = i, !.dist = ti.dist] ELSE st

\* The for loop of onAddPoint from index i downwards.  st carries the
\* locals (box, hull, next, dist) and the fields the loop writes (tags,
\* trace), with errs and cutBy recording error() after every extend and the
\* index whose scan set each cut flag.  nj is the hull node of point j.
RECURSIVE scan(_, _, _, _, _, _, _)

\* the pioneer tests after hull.offer(pi): o = [hull, node], st2 the locals
\* with the new hull
pioneers(i, j, pts, sums, thresholdSq, nj, line, o, st2) ==
  IF o.node = 0 \/ ~isPioneer(line, o.hull.nodes, o.node)
  THEN scan(i - 1, j, pts, sums, thresholdSq, nj,
         [st2 EXCEPT !.trace = Append(@, "pioneer_weak")])
  ELSE IF ~isPioneer(line, o.hull.nodes, nj)
  THEN [st2 EXCEPT !.trace = Append(@, "pioneer_strong")]
  ELSE scan(i - 1, j, pts, sums, thresholdSq, nj,
         closer([st2 EXCEPT !.trace = Append(@, "accept")], At(st2.tags, i), i))

\* const ni = hull.offer(pi)
afterOffer(i, j, pts, sums, thresholdSq, nj, line, o, st1) ==
  pioneers(i, j, pts, sums, thresholdSq, nj, line, o, [st1 EXCEPT !.hull = o.hull])

\* the threshold test after errorBox.extend(line, pi): st1 the locals with
\* the new box
threshold(i, j, pts, sums, thresholdSq, nj, line, st1) ==
  IF overThreshold(st1.box, thresholdSq)
  THEN [st1 EXCEPT !.trace = Append(@, "threshold")]
  ELSE afterOffer(i, j, pts, sums, thresholdSq, nj, line, offer(st1.hull, At(pts, i)), st1)

\* errorBox.extend(line, pi)
extended(i, j, pts, sums, thresholdSq, nj, line, box, st) ==
  threshold(i, j, pts, sums, thresholdSq, nj, line,
            [st EXCEPT !.box = box, !.errs = Append(@, error(box))])

\* const line = fitter.fitLine(i, j)
fitted(i, j, pts, sums, thresholdSq, nj, line, st) ==
  extended(i, j, pts, sums, thresholdSq, nj, line, extend(st.box, line, FP(At(pts, i))), st)

\* the loop with continue in place of break in the cut branch
scanContinueOnCut(i, j, pts, sums, thresholdSq, nj, st) ==
  IF i < 0 THEN st
  ELSE IF cutTest(At(st.tags, i), i, j, pts)
  THEN scan(i - 1, j, pts, sums, thresholdSq, nj, cutBranch(st, At(st.tags, i), i, j))
  ELSE fitted(i, j, pts, sums, thresholdSq, nj, fitLine(sums, i, j), st)

scan(i, j, pts, sums, thresholdSq, nj, st) ==
  IF i < 0 THEN st
  ELSE IF cutTest(At(st.tags, i), i, j, pts)
  THEN cutBranch(st, At(st.tags, i), i, j)
  ELSE fitted(i, j, pts, sums, thresholdSq, nj, fitLine(sums, i, j), st)

\* the sentinel pushed behind the verdicts of the append before
startTraceKeepsOld(trace) == Append(trace, "accept")

\* this.trace.length = 0; this.trace.push('accept')
startTrace(trace) == << "accept" >>

\* the tag pushed with the dist of its predecessor
newTagSameDist(dist, next) == [dist |-> dist, next |-> next, cut |-> FALSE]

\* this.tags.push({ dist: dist + 1, next, cut: false })
newTag(dist, next) == [dist |-> dist + 1, next |-> next, cut |-> FALSE]

\* this.tags.push after the loop of the append of index j; r is the state
\* the loop leaves
pushed(s, j, r) ==
  [pathLength |-> j + 1,
   tags  |-> Append(r.tags, newTag(r.dist, r.next)),
   trace |-> r.trace,
   errs  |-> r.errs,
   cutBy |-> Append(r.cutBy, -1),
   accepted |-> Append(s.accepted,
                 { j - k : k \in { n \in 1..(Len(r.trace) - 1) : r.trace[n + 1] = "accept" } })]

\* the append of index j with box = new ErrorBox(fitLine(j, j), pj) and
\* o = hull.offer(pj)
started(s, j, pts, sums, thresholdSq, box, o) ==
  IF j = 0
  THEN [pathLength |-> j + 1,
        tags  |-> Append(s.tags, [dist |-> 0, next |-> -1, cut |-> FALSE]),
        trace |-> startTrace(s.trace),
        errs  |-> << error(box) >>,
        cutBy |-> Append(s.cutBy, -1),
        accepted |-> Append(s.accepted, { })]
  ELSE pushed(s, j,
              scan(j - 1, j, pts, sums, thresholdSq, o.node,
                   [tags |-> s.tags, trace |-> startTrace(s.trace), box |-> box,
                    hull |-> o.hull, next |-> j - 1, dist |-> At(s.tags, j - 1).dist,
                    errs |-> << error(box) >>, cutBy |-> s.cutBy]))

\* PathSimplifier.onAddPoint for the point just pushed to pts; sums already
\* holds the fitter's update.  s = [pathLength, tags, trace, errs, cutBy,
\* accepted]; accepted records, for every index, the indices i whose step of
\* its scan ended with trace.push('accept').
OnAddPoint(s, pts, sums, thresholdSq) ==
  started(s, s.pathLength, pts, sums, thresholdSq,
          ErrorBox(fitLine(sums, s.pathLength, s.pathLength), FP(At(pts, s.pathLength))),
          offer(EmptyHull, At(pts, s.pathLength)))

\* onClear that resets the length but keeps the tags
OnClearKeepsTags(s) == [s EXCEPT !.pathLength = 0]

\* PathSimplifier.onClear: the trace is left as it is
OnClear(s) ==
  [s EXCEPT !.pathLength = 0, !.tags = << >>, !.cutBy = << >>, !.accepted = << >>]

\* the while loop of getSimplified: i is the start of the edge whose line
\* is `line`
RECURSIVE walk(_, _, _, _, _, _)

\* result.addPoint of the step at j: p is the intersection of the new line
\* l2 and the previous one, i2 the start of the next edge
walkAdd(i2, l2, p, pj, result, pts, tags, fs) ==
  IF isSingular(p) \/ FLess(FMul(F(4), fs.thresholdSq), distSq(p, pj))
  THEN walk(i2, l2, Append(result, pj), pts, tags, fs)
  ELSE walk(i2, l2, Append(result, p), pts, tags, fs)

\* l2 = fitLine(i2, j) and its intersection with the previous line
walkMeet(i2, j, l2, line, result, pts, tags, fs) ==
  walkAdd(i2, l2, intersection(l2, line), FP(At(pts, j)), result, pts, tags, fs)

\* one pass of the loop, from the edge that ends at j
walkStep(j, line, result, pts, tags, fs) ==
  walkMeet(At(tags, j).next, j, fitLine(fs.sums, At(tags, j).next, j), line, result, pts, tags, fs)

\* the loop ending with the original first point added after its projection
walkKeepsFirst(i, line, result, pts, tags, fs) ==
  IF i = 0
  THEN Append(Append(result, project(FP(At(pts, 0)), line)), FP(At(pts, 0)))
  ELSE walkStep(i, line, result, pts, tags, fs)

walk(i, line, result, pts, tags, fs) ==
  IF i = 0
  THEN Append(result, project(FP(At(pts, 0)), line))
  ELSE walkStep(i, line, result, pts, tags, fs)

\* the walk from the newest index j, whose edge starts at i and has `line`
walkFrom(i, j, line, pts, tags, sums, thresholdSq) ==
  walk(i, line, << project(FP(At(pts, j)), line) >>, pts, tags,
       [sums |-> sums, thresholdSq |-> thresholdSq])

\* PathSimplifier.getSimplified: the points of the returned Path
getSimplified(pathLength, pts, tags, sums, thresholdSq) ==
  IF pathLength <= 1 THEN [k \in 1..Len(pts) |-> FP(pts[k])]
  ELSE walkFrom(At(tags, pathLength - 1).next, pathLength - 1,
                fitLine(sums, At(tags, pathLength - 1).next, pathLength - 1),
                pts, tags, sums, thresholdSq)

\* ------------------------------------------------------------------------
\* Simple polylines, the inputs SimplePathHull is written for
\* ------------------------------------------------------------------------

\* p lies on the closed segment ab
onSegment(a, b, p) ==
  /\ side(a, b, p) = 0
  /\ IMin(a[1], b[1]) <= p[1] /\ p[1] <= IMax(a[1], b[1])
  /\ IMin(a[2], b[2]) <= p[2] /\ p[2] <= IMax(a[2], b[2])

\* the closed segments ab and cd have a point in common
segmentsMeet(a, b, c, d) ==
  LET d1 == side(c, d, a)
      d2 == side(c, d, b)
      d3 == side(a, b, c)
      d4 == side(a, b, d)
  IN  \/ /\ (d1 > 0 /\ d2 < 0) \/ (d1 < 0 /\ d2 > 0)
         /\ (d3 > 0 /\ d4 < 0) \/ (d3 < 0 /\ d4 > 0)
      \/ onSegment(c, d, a) \/ onSegment(c, d, b)
      \/ onSegment(a, b, c) \/ onSegment(a, b, d)

\* no segment of length 0, consecutive segments meet only in their common
\* end, and no two other segments meet
simplePolyline(q) ==
  /\ \A k \in 1..(Len(q) - 1) : q[k] # q[k + 1]
  /\ \A k \in 1..(Len(q) - 2) :
       ~onSegment(q[k], q[k + 1], q[k + 2]) /\ ~onSegment(q[k + 1], q[k + 2], q[k])
  /\ \A k \in 1..(Len(q) - 1) : \A m \in (k + 2)..(Len(q) - 1) :
       ~segmentsMeet(q[k], q[k + 1], q[m], q[m + 1])

\* ------------------------------------------------------------------------
\* State: one Path with its PathSimplifier (which owns a LineFitter), and a
\* stand-alone SimplePathHull
\* ------------------------------------------------------------------------

VARIABLES
  points,       \* Path.points
  listeners,    \* Path.listeners, in registration order
  fitLen,       \* LineFitter.pathLength of the first simplifier's fitter
  sums,         \* its sumsX, sumsY, sumsXX, sumsYY, sumsXY
  simp,         \* the first PathSimplifier: pathLength, tags, trace (and errs, cutBy, accepted)
  thresholdSq,  \* its thresholdSq
  second,       \* a PathSimplifier constructed later on the same path, with its fitter
  last,         \* history: the last call made, and the listener calls it made
  got,          \* history: what the last call returned
  cleared,      \* history: Path.clear has been called at least once
  hull,         \* a SimplePathHull used on its own
  offered       \* history: the points offered to hull, in order

pathVars == << points, listeners, fitLen, sums, simp, thresholdSq, second, last, got, cleared >>

hullVars == << hull, offered >>

vars == << points, listeners, fitLen, sums, simp, thresholdSq, second, last, got, cleared,
           hull, offered >>

\* a PathSimplifier just constructed on an empty path
NewSimplifier == [pathLength |-> 0, tags |-> << >>, trace |-> << >>,
                  errs |-> << >>, cutBy |-> << >>, accepted |-> << >>]

\* the second simplifier before it is constructed
NoSecond == [made |-> FALSE, threshold |-> 0, thresholdSq |-> F(0),
             fitLen |-> 0, sums |-> EmptySums, simp |-> NewSimplifier]

\* a listener of the path: the fitter or the simplifier of simplifier `owner`
Listener(kind, owner) == [kind |-> kind, owner |-> owner]

\* Path.addListener: this.listeners.push(listener)
addListener(ls, listener) == Append(ls, listener)

\* the listeners after new PathSimplifier(path, t): new LineFitter(path)
\* registers the fitter, then the simplifier registers itself
ConstructorListeners(ls, owner) ==
  addListener(addListener(ls, Listener("fitter", owner)), Listener("simplifier", owner))

NoCall == [op |-> "new", arg |-> 0, calls |-> << >>]

NothingGot == [kind |-> "none", value |-> << >>]

\* new Path(); new PathSimplifier(path, t)
InitPath ==
  /\ points = << >>
  /\ listeners = ConstructorListeners(<< >>, 1)
  /\ fitLen = 0
  /\ sums = EmptySums
  /\ simp = NewSimplifier
  /\ second = NoSecond
  /\ last = NoCall
  /\ got = NothingGot
  /\ cleared = FALSE

InitStandaloneHull ==
  /\ hull = EmptyHull
  /\ offered = << >>

Init ==
  /\ InitPath
  /\ \E t \in Thresholds : thresholdSq = F(t * t)
  /\ InitStandaloneHull

\* the two simplifiers with their fitters, as the listeners see them
World ==
  [o |-> << [made |-> TRUE, threshold |-> 0, thresholdSq |-> thresholdSq,
             fitLen |-> fitLen, sums |-> sums, simp |-> simp],
            second >>,
   calls |-> << >>]

\* the notification loop stopping one listener short
RECURSIVE notifyAddPointAllButLast(_, _, _, _, _)
notifyAddPointAllButLast(k, ls, pts, p, w) ==
  IF k >= Len(ls) THEN w
  ELSE IF ls[k].kind = "fitter"
  THEN notifyAddPointAllButLast(k + 1, ls, pts, p,
         [w EXCEPT !.o[ls[k].owner].sums = FitterOnAddPoint(@, w.o[ls[k].owner].fitLen, p),
                   !.o[ls[k].owner].fitLen = @ + 1,
                   !.calls = Append(@, [listener |-> k, fitLen |-> -1])])
  ELSE IF ls[k].kind = "client"
  THEN notifyAddPointAllButLast(k + 1, ls, pts, p,
         [w EXCEPT !.calls = Append(@, [listener |-> k, fitLen |-> -1])])
  ELSE notifyAddPointAllButLast(k + 1, ls, pts, p,
         [w EXCEPT !.o[ls[k].owner].simp =
                     OnAddPoint(@, pts, w.o[ls[k].owner].sums, w.o[ls[k].owner].thresholdSq),
                   !.calls = Append(@, [listener |-> k, fitLen |-> w.o[ls[k].owner].fitLen])])

\* this.listeners.forEach(listener => listener.onAddPoint(this, p)), from
\* listener k on.  calls records each listener called and, for a simplifier,
\* how many points its fitter had processed when the call started.
RECURSIVE notifyAddPoint(_, _, _, _, _)
notifyAddPoint(k, ls, pts, p, w) ==
  IF k > Len(ls) THEN w
  ELSE IF ls[k].kind = "fitter"
  THEN notifyAddPoint(k + 1, ls, pts, p,
         [w EXCEPT !.o[ls[k].owner].sums = FitterOnAddPoint(@, w.o[ls[k].owner].fitLen, p),
                   !.o[ls[k].owner].fitLen = @ + 1,
                   !.calls = Append(@, [listener |-> k, fitLen |-> -1])])
  ELSE IF ls[k].kind = "client"
  THEN notifyAddPoint(k + 1, ls, pts, p,
         [w EXCEPT !.calls = Append(@, [listener |-> k, fitLen |-> -1])])
  ELSE notifyAddPoint(k + 1, ls, pts, p,
         [w EXCEPT !.o[ls[k].owner].simp =
                     OnAddPoint(@, pts, w.o[ls[k].owner].sums, w.o[ls[k].owner].thresholdSq),
                   !.calls = Append(@, [listener |-> k, fitLen |-> w.o[ls[k].owner].fitLen])])

\* this.listeners.forEach(listener => listener.onClear(this)), from listener k on
RECURSIVE notifyClear(_, _, _)
notifyClear(k, ls, w) ==
  IF k > Len(ls) THEN w
  ELSE IF ls[k].kind = "fitter"
  THEN notifyClear(k + 1, ls,
         [w EXCEPT !.o[ls[k].owner].sums = EmptySums,
                   !.o[ls[k].owner].fitLen = 0,
                   !.calls = Append(@, [listener |-> k, fitLen |-> -1])])
  ELSE IF ls[k].kind = "client"
  THEN notifyClear(k + 1, ls,
         [w EXCEPT !.calls = Append(@, [listener |-> k, fitLen |-> -1])])
  ELSE notifyClear(k + 1, ls,
         [w EXCEPT !.o[ls[k].owner].simp = OnClear(@),
                   !.calls = Append(@, [listener |-> k, fitLen |-> w.o[ls[k].owner].fitLen])])

\* Path.addPoint: push, then every listener in registration order
AddPoint(p) ==
  LET notified(w) ==
        /\ fitLen' = w.o[1].fitLen
        /\ sums' = w.o[1].sums
        /\ simp' = w.o[1].simp
        /\ second' = w.o[2]
        /\ last' = [op |-> "addPoint", arg |-> 0, calls |-> w.calls]
  IN  /\ Len(points) < MaxLen
      /\ points' = Append(points, p)
      /\ notified(notifyAddPoint(1, listeners, Append(points, p), p, World))
      /\ got' = NothingGot
      /\ UNCHANGED << listeners, thresholdSq, cleared, hullVars >>

\* Path.clear
Clear ==
  LET notified(w) ==
        /\ fitLen' = w.o[1].fitLen
        /\ sums' = w.o[1].sums
        /\ simp' = w.o[1].simp
        /\ second' = w.o[2]
        /\ last' = [op |-> "clear", arg |-> 0, calls |-> w.calls]
  IN  /\ points' = << >>
      /\ notified(notifyClear(1, listeners, World))
      /\ got' = NothingGot
      /\ cleared' = TRUE
      /\ UNCHANGED << listeners, thresholdSq, hullVars >>

Next ==
  \/ \E p \in Points : AddPoint(p)
  \/ Clear

Spec == Init /\ [][Next]_vars

\* appends and clears with the points of the two scenarios only
NextReplay ==
  \/ \E p \in ReplayPoints : Len(points) < MaxReplay /\ AddPoint(p)
  \/ Clear

SpecReplay == Init /\ [][NextReplay]_vars

\* hull.offer(p) on the stand-alone hull, for the next point of a simple
\* polyline
Offer(p) ==
  /\ Len(offered) < MaxOffer
  /\ simplePolyline(Append(offered, p))
  /\ hull' = offer(hull, p).hull
  /\ offered' = Append(offered, p)
  /\ UNCHANGED pathVars

InitHull ==
  /\ InitPath
  /\ thresholdSq = F(1)
  /\ InitStandaloneHull

NextHull == \E p \in HullPoints : Offer(p)

SpecHull == InitHull /\ [][NextHull]_vars

\* Path.point(i): this.points[i]; an array read at an index that holds no
\* element gives undefined
point(pts, i) ==
  IF 0 <= i /\ i < Len(pts)
  THEN [kind |-> "value", value |-> pts[i + 1]]
  ELSE [kind |-> "undefined", value |-> << >>]

\* Path.lastPoint()
lastPoint(pts) == point(pts, Len(pts) - 1)

\* the indices Path.point is called with
Indices == -1..MaxRead

\* a call of path.point(i)
Point(i) ==
  /\ got' = point(points, i)
  /\ last' = [op |-> "point", arg |-> i, calls |-> << >>]
  /\ UNCHANGED << points, listeners, fitLen, sums, simp, thresholdSq, second, cleared,
                  hullVars >>

\* a call of path.lastPoint()
LastPoint ==
  /\ got' = lastPoint(points)
  /\ last' = [op |-> "lastPoint", arg |-> 0, calls |-> << >>]
  /\ UNCHANGED << points, listeners, fitLen, sums, simp, thresholdSq, second, cleared,
                  hullVars >>

\* path.addListener(listener) called by a client with a listener of its
\* own, whose callbacks leave the path, the fitter and the simplifier alone
AddListener ==
  /\ Len(listeners) < MaxListeners
  /\ listeners' = addListener(listeners, Listener("client", 0))
  /\ last' = [op |-> "addListener", arg |-> 0, calls |-> << >>]
  /\ got' = NothingGot
  /\ UNCHANGED << points, fitLen, sums, simp, thresholdSq, second, cleared, hullVars >>

\* appends, reads of the path by index, and listeners registered by a client
NextRead ==
  \/ \E p \in ReadPoints : Len(points) < MaxRead /\ AddPoint(p)
  \/ AddListener
  \/ \E i \in Indices : Point(i)
  \/ LastPoint

SpecRead == Init /\ [][NextRead]_vars

\* appends of the corners of a square
NextCross == \E p \in CrossPoints : Len(points) < MaxCross /\ AddPoint(p)

SpecCross == Init /\ [][NextCross]_vars

\* the loop of the LineFitter constructor: for (const p of path)
\* this.onAddPoint(path, p), from point k on; f = [fitLen, sums]
RECURSIVE fitterReplay(_, _, _)
fitterReplay(pts, k, f) ==
  IF k > Len(pts) THEN f
  ELSE fitterReplay(pts, k + 1,
         [fitLen |-> f.fitLen + 1, sums |-> FitterOnAddPoint(f.sums, f.fitLen, pts[k])])

\* the constructor attaching to the path without the replay of its points
simplifierReplaySkipped(pts, k, s, fsums, thSq) == s

\* the loop of the PathSimplifier constructor: for (const p of path)
\* this.onAddPoint(path, p), from point k on.  The path and the fitter
\* already hold every point.
RECURSIVE simplifierReplay(_, _, _, _, _)
simplifierReplay(pts, k, s, fsums, thSq) ==
  IF k > Len(pts) THEN s
  ELSE simplifierReplay(pts, k + 1, OnAddPoint(s, pts, fsums, thSq), fsums, thSq)

\* the simplifier built around its fitter f, which has replayed the points
built(pts, t, f) ==
  [made |-> TRUE, threshold |-> t, thresholdSq |-> F(t * t),
   fitLen |-> f.fitLen, sums |-> f.sums,
   simp |-> simplifierReplay(pts, 1, OnClear(NewSimplifier), f.sums, F(t * t))]

\* new PathSimplifier(path, t) on a path holding pts
newPathSimplifier(pts, t) ==
  built(pts, t, fitterReplay(pts, 1, [fitLen |-> 0, sums |-> EmptySums]))

\* a second simplifier is constructed on the path as it is
Construct(t) ==
  /\ ~second.made
  /\ second' = newPathSimplifier(points, t)
  /\ listeners' = ConstructorListeners(listeners, 2)
  /\ last' = [op |-> "construct", arg |-> t, calls |-> << >>]
  /\ got' = NothingGot
  /\ UNCHANGED << points, fitLen, sums, simp, thresholdSq, cleared, hullVars >>

\* new Path(): no points and no listeners
NewPath == [points |-> << >>, listeners |-> << >>]

\* the objects a getSimplified() call works on: the path of the
\* simplifiers (self), the Path it creates (result), and the simplifiers
\* with their fitters (world)
Heap == [self   |-> [points |-> points, listeners |-> listeners],
         result |-> NewPath,
         world  |-> World]

\* result.addPoint(p) in the heap h: push, then every listener of result
resultAddPoint(h, p) ==
  [h EXCEPT !.result.points = Append(@, p),
            !.world = notifyAddPoint(1, h.result.listeners, Append(h.result.points, p), p, @)]

\* the result.addPoint calls of getSimplified(), one for each point of the
\* walk ps, from the k-th on
RECURSIVE resultAddPoints(_, _, _)
resultAddPoints(h, ps, k) ==
  IF k > Len(ps) THEN h ELSE resultAddPoints(resultAddPoint(h, ps[k]), ps, k + 1)

\* the points the walk of simplifier x = [simp, sums, thresholdSq] adds
simplifiedOf(h, x) ==
  getSimplified(x.simp.pathLength, h.self.points, x.simp.tags, x.sums, x.thresholdSq)

\* getSimplified() of simplifier o: the heap it leaves and the Path it
\* returns, this.path when pathLength <= 1 and result otherwise
getSimplifiedCall(o, h) ==
  IF h.world.o[o].simp.pathLength <= 1
  THEN [heap |-> h, returned |-> "self"]
  ELSE [heap |-> resultAddPoints(h, simplifiedOf(h, h.world.o[o]), 1), returned |-> "result"]

\* the points of the Path the call c returned, as numbers
returnedPoints(c) ==
  IF c.returned = "self"
  THEN [k \in 1..Len(c.heap.self.points) |-> FP(c.heap.self.points[k])]
  ELSE c.heap.result.points

\* the state after the call c = [heap, returned] of simplifier o
Returned(o, c) ==
  /\ got' = [kind |-> "path", value |-> returnedPoints(c)]
  /\ last' = [op |-> "getSimplified", arg |-> o, calls |-> c.heap.world.calls]
  /\ points' = c.heap.self.points
  /\ listeners' = c.heap.self.listeners
  /\ fitLen' = c.heap.world.o[1].fitLen
  /\ sums' = c.heap.world.o[1].sums
  /\ simp' = c.heap.world.o[1].simp
  /\ thresholdSq' = c.heap.world.o[1].thresholdSq
  /\ second' = c.heap.world.o[2]

\* getSimplified emptying the first simplifier's trace as onAddPoint does
GetSimplifiedResetsTrace(o) ==
  /\ o = 2 => second.made
  /\ Returned(o, [getSimplifiedCall(o, Heap) EXCEPT !.heap.world.o[1].simp.trace = << >>])
  /\ UNCHANGED << cleared, hullVars >>

\* simplifier.getSimplified() of simplifier o
GetSimplified(o) ==
  /\ o = 2 => second.made
  /\ Returned(o, getSimplifiedCall(o, Heap))
  /\ UNCHANGED << cleared, hullVars >>

\* the first simplifier has threshold 1
InitAttach ==
  /\ InitPath
  /\ thresholdSq = F(1)
  /\ InitStandaloneHull

\* appends and clears, a second simplifier attached at any moment, and
\* reads of the simplified paths
NextAttach ==
  \/ \E p \in AttachPoints : Len(points) < MaxAttach /\ AddPoint(p)
  \/ Clear
  \/ \E t \in AttachThresholds : Construct(t)
  \/ \E o \in { 1, 2 } : GetSimplified(o)

SpecAttach == InitAttach /\ [][NextAttach]_vars

\* appends, and a second simplifier constructed at any moment
NextConstruct ==
  \/ \E p \in AttachPoints : Len(points) < MaxBuilt /\ AddPoint(p)
  \/ \E t \in AttachThresholds : Construct(t)

SpecConstruct == InitAttach /\ [][NextConstruct]_vars

\* Geometry.intersect(a, b, c, d) called once, on its own
Intersect(a, b, c, d) ==
  /\ last.op = "new"
  /\ got' = [kind |-> "boolean", value |-> intersect(a, b, c, d)]
  /\ last' = [op |-> "intersect", arg |-> << a, b, c, d >>, calls |-> << >>]
  /\ UNCHANGED << points, listeners, fitLen, sums, simp, thresholdSq, second, cleared, hullVars >>

NextGeometry == \E a, b, c, d \in GridPoints : Intersect(a, b, c, d)

SpecGeometry == InitAttach /\ [][NextGeometry]_vars

Simplified == getSimplified(simp.pathLength, points, simp.tags, sums, thresholdSq)

\* ------------------------------------------------------------------------
\* Properties
\* ------------------------------------------------------------------------

\* index of the newest point
Last == simp.pathLength - 1

Tag(i) == At(simp.tags, i)

\* d(L, p) = (ax + by + c)^2 / (a^2 + b^2)
distSqToLine(l, p) ==
  LET v == FAdd(FAdd(FMul(l.a, p[1]), FMul(l.b, p[2])), l.c)
  IN  FDiv(FMul(v, v), NormSq(l))

\* the state that appending pts[1..k] one at a time to a new, empty Path
\* with a new PathSimplifier leaves behind
RECURSIVE replay(_, _, _)
replay(pts, k, thSq) ==
  IF k = 0 THEN [fitLen |-> 0, sums |-> EmptySums, simp |-> NewSimplifier]
  ELSE
    LET before == replay(pts, k - 1, thSq)
        sums2  == FitterOnAddPoint(before.sums, before.fitLen, pts[k])
    IN  [fitLen |-> before.fitLen + 1,
         sums   |-> sums2,
         simp   |-> OnAddPoint(before.simp, SubSeq(pts, 1, k), sums2, thSq)]

\* C1: every edge (tag[j].next, j) of the table keeps each original point of
\* its subpath within the threshold of the line fitted to that subpath:
\* squared distance to fitLine(i, j) at most threshold squared.
C1_EdgeWithinThreshold ==
  \A j \in 1..Last :
    LET i    == Tag(j).next
        line == fitLine(sums, i, j)
    IN  \A k \in i..j : FLeq(distSqToLine(line, FP(At(points, k))), thresholdSq)

\* an edge that skips a point lying off its fitted line
C1_Witness ==
  \E j \in 1..Last :
    LET i    == Tag(j).next
        line == fitLine(sums, i, j)
    IN  /\ i < j - 1
        /\ \E k \in i..j : FLess(FZero, distSqToLine(line, FP(At(points, k))))

\* C2: for a nonempty path, getSimplified() returns at most as many points
\* as the path holds.
C2_SimplifiedNoLonger ==
  Len(points) >= 1 => Len(Simplified) <= Len(points)

\* a path of at least three points whose simplification is shorter
C2_Witness ==
  Len(points) >= 3 /\ Len(Simplified) < Len(points)

\* C3: after a clear, appending a point list gives the tags and the
\* getSimplified() output that the same list gives on a new path with a new
\* simplifier of the same threshold, whatever was appended and cleared before.
C3_ClearReplayEqualsFresh ==
  cleared =>
    LET fresh == replay(points, Len(points), thresholdSq)
    IN  /\ simp.pathLength = fresh.simp.pathLength
        /\ simp.tags = fresh.simp.tags
        /\ Simplified = getSimplified(fresh.simp.pathLength, points,
                                      fresh.simp.tags, fresh.sums, thresholdSq)

\* points appended after a clear, the last one joined to an earlier one by
\* an edge longer than one segment
C3_Witness ==
  cleared /\ Len(points) >= 3 /\ Tag(Last).next < Last - 1

\* C4: threshold 1 and the path (0,0), (5,0), (10,0): getSimplified()
\* returns (0,0), (10,0), in this order.
C4_CollinearOutput ==
  (thresholdSq = F(1) /\ points = << <<0, 0>>, <<5, 0>>, <<10, 0>> >>)
    => Simplified = << FP(<<0, 0>>), FP(<<10, 0>>) >>

\* C5: threshold 1 and the path (0,0), (10,0), (10,10): the scan of index 2
\* does not accept the edge (0, 2), tag[2].next = 1, and getSimplified()
\* returns three vertices, one at each original point.
C5_RightAngleKeepsAll ==
  (thresholdSq = F(1) /\ points = << <<0, 0>>, <<10, 0>>, <<10, 10>> >>)
    => /\ Tag(2).next = 1
       /\ Len(simp.trace) = 3 /\ simp.trace[3] # "accept"
       /\ Len(Simplified) = 3
       /\ \A k \in 1..3 : \E m \in 1..3 : Simplified[m] = FP(points[k])

\* the right-angle path has been appended
C5_Witness ==
  thresholdSq = F(1) /\ points = << <<0, 0>>, <<10, 0>>, <<10, 10>> >>

\* the indices getSimplified() visits: the predecessor chain from j to 0
RECURSIVE route(_)
route(j) == IF j <= 0 THEN { 0 } ELSE { j } \cup route(Tag(j).next)

\* C6: when the append of index j returns, every earlier segment [i, i+1],
\* i < j-2, that the new segment [j-1, j] intersects has tag[i].cut set.
\* (Stated for segments that intersect both by Geometry.intersect and as
\* closed point sets.)
C6_CrossedSegmentIsCut ==
  \A i \in 0..(Last - 3) :
    ( /\ intersect(At(points, i), At(points, i + 1), At(points, Last - 1), At(points, Last))
      /\ segmentsMeet(At(points, i), At(points, i + 1), At(points, Last - 1), At(points, Last)) )
    => Tag(i).cut

\* C7 as stated: a cut index is never a vertex of the route that
\* getSimplified() reconstructs.
C7_RouteAvoidsCut ==
  Last >= 1 => \A i \in 0..Last : Tag(i).cut => i \notin route(Last)

\* C7 as amended: the route never uses an edge into or across a cut index
\* that was made after the cut: for every cut index i, every route vertex v
\* appended at or after the scan that set the cut has tag[v].next > i.
C7_RouteEdgesAfterCut ==
  Last >= 1 =>
    \A i \in 0..Last : Tag(i).cut =>
      \A v \in route(Last) : v >= At(simp.cutBy, i) => Tag(v).next > i

\* a cut index other than 0 that is a vertex of the route, which also has a
\* vertex appended by the scan that set the cut or later
C7_Witness ==
  /\ Last >= 1
  /\ \E i \in 1..Last :
       /\ Tag(i).cut
       /\ i \in route(Last)
       /\ \E v \in route(Last) : v >= At(simp.cutBy, i)

\* C8: once tag[i].cut is set by the scan of j0, every index j >= j0 has
\* tag[j].next > i, and the scan of the newest index accepts no edge from i
\* or below.
C8_NoEdgeFromCut ==
  Last >= 1 =>
    \A i \in 0..Last : Tag(i).cut =>
      /\ \A j \in At(simp.cutBy, i)..Last : Tag(j).next > i
      /\ \A k \in 1..(Len(simp.trace) - 1) :
           simp.trace[k + 1] = "accept" => Last - k > i

\* an index appended after the cut whose scan ran into the cut index
C8_Witness ==
  /\ Last >= 1
  /\ \E i \in 0..Last :
       /\ Tag(i).cut
       /\ Last > At(simp.cutBy, i)
       /\ Len(simp.trace) = Last - i + 1
       /\ simp.trace[Len(simp.trace)] = "cut"

\* the node ids met from first along next, until first comes round again
RECURSIVE cycleFrom(_, _, _)
cycleFrom(h, n, acc) ==
  IF Len(acc) >= Len(h.nodes) THEN acc
  ELSE LET acc2 == Append(acc, n)
       IN  IF h.nodes[n].next = h.first THEN acc2 ELSE cycleFrom(h, h.nodes[n].next, acc2)

hullCycle(h) == IF h.first = 0 THEN << >> ELSE cycleFrom(h, h.first, << >>)

\* C9: after offering the points of a simple polyline in path order, the
\* cycle of nodes reachable from first is a convex polygon listed
\* counter-clockwise and every offered point lies on or inside it: each
\* offered point is on or to the left of every edge, the polygon has
\* positive area (for one or two nodes: the points lie on the node, on the
\* segment), the nodes are valid and size counts them.
C9_HullConvexContainsAll ==
  Len(offered) >= 1 =>
    LET c   == hullCycle(hull)
        n   == Len(c)
        pos(k) == hull.nodes[c[k]].pos
        nxt(k) == IF k = n THEN 1 ELSE k + 1
    IN  /\ n >= 1
        /\ n = hull.size
        /\ \A k \in 1..n : hull.nodes[c[k]].isValid
        /\ \A k \in 1..n : hull.nodes[c[k]].next = c[nxt(k)] /\ hull.nodes[c[nxt(k)]].prev = c[k]
        /\ \A m \in 1..Len(offered) :
             IF n = 1 THEN offered[m] = pos(1)
             ELSE IF n = 2 THEN onSegment(pos(1), pos(2), offered[m])
             ELSE \A k \in 1..n : side(pos(k), pos(nxt(k)), offered[m]) >= 0
        /\ n >= 3 => \E k \in 1..n : side(pos(k), pos(nxt(k)), pos(nxt(nxt(k)))) > 0

\* a hull of at least three nodes that has evicted a node and rejected a point
C9_Witness ==
  /\ hull.size >= 3
  /\ \E k \in 1..Len(hull.nodes) : ~hull.nodes[k].isValid
  /\ Len(offered) > Len(hull.nodes)

\* C10: during the scan of an index, error() after each extend is at least
\* its value before that extend.
C10_ErrorNonDecreasing ==
  \A k \in 1..(Len(simp.errs) - 1) : FLeq(simp.errs[k], simp.errs[k + 1])

\* C11: a read of the path at an index outside 0..length-1 (point(i), or
\* lastPoint() on an empty path) fails with an error instead of returning.
C11_OutOfRangeFails ==
  /\ (last.op = "point" /\ (last.arg < 0 \/ last.arg >= Len(points))) => got.kind = "error"
  /\ (last.op = "lastPoint" /\ Len(points) = 0) => got.kind = "error"

\* C12: a simplifier is never constructed with a threshold <= 0: such a
\* construction creates no simplifier and registers no listener.
C12_NonPositiveThresholdRejected ==
  (second.made \/ Len(listeners) > 2) => second.threshold > 0

\* C13: when addPoint returns, every listener has been called once, in
\* registration order, and each simplifier's fitter had already processed
\* the new point (its prefix sums covering 0..j) when that simplifier's
\* onAddPoint started; every simplifier has handled the point.
C13_ListenersInOrder ==
  last.op = "addPoint" =>
    /\ Len(last.calls) = Len(listeners)
    /\ \A k \in 1..Len(listeners) :
         /\ last.calls[k].listener = k
         /\ listeners[k].kind = "simplifier" => last.calls[k].fitLen = Len(points)
    /\ simp.pathLength = Len(points) /\ fitLen = Len(points)
    /\ second.made => (second.simp.pathLength = Len(points) /\ second.fitLen = Len(points))

\* an append notified two simplifiers and their fitters
C13_Witness ==
  /\ last.op = "addPoint"
  /\ second.made
  /\ Len(last.calls) = 4
  /\ Len(points) >= 2

\* C14: a simplifier constructed on a path that already holds points has
\* the tags and the getSimplified() output of a simplifier with the same
\* threshold constructed on an empty path and then given the points one at
\* a time.
C14_ConstructEqualsIncremental ==
  second.made =>
    LET fresh == replay(points, Len(points), second.thresholdSq)
    IN  /\ second.simp.pathLength = fresh.simp.pathLength
        /\ second.simp.tags = fresh.simp.tags
        /\ getSimplified(second.simp.pathLength, points, second.simp.tags,
                         second.sums, second.thresholdSq)
           = getSimplified(fresh.simp.pathLength, points, fresh.simp.tags,
                           fresh.sums, second.thresholdSq)

\* a simplifier has just been constructed on a path of at least four
\* points; it has marked a point as cut and holds an edge longer than one
\* segment
C14_Witness ==
  /\ last.op = "construct"
  /\ Len(points) >= 4
  /\ \E j \in 0..(Len(points) - 1) : At(second.simp.tags, j).cut
  /\ \E j \in 1..(Len(points) - 1) : At(second.simp.tags, j).next < j - 1

\* C15: a getSimplified() call changes neither the path's points and
\* listeners nor any simplifier's tags, trace and prefix sums, it calls no
\* listener, and a second call right after the first, on the same
\* simplifier, returns an equal point sequence.
C15_GetSimplifiedReadsOnly ==
  [][last'.op = "getSimplified" =>
       /\ UNCHANGED << points, listeners, fitLen, sums, simp, thresholdSq, second >>
       /\ last'.calls = << >>
       /\ (last.op = "getSimplified" /\ last.arg = last'.arg) => got' = got]_vars

\* getSimplified() has returned a path shorter than the original
C15_Witness ==
  /\ last.op = "getSimplified"
  /\ Len(points) >= 3
  /\ Len(got.value) < Len(points)

\* C16: Geometry.intersect(a, b, c, d) is true exactly when the closed
\* segments ab and cd share at least one point, shared end points and four
\* collinear points included.
C16_IntersectIffShared ==
  last.op = "intersect" =>
    (got.value <=> segmentsMeet(last.arg[1], last.arg[2], last.arg[3], last.arg[4]))

\* f(a, b, c) of line_fitter.ts: the sum of the squared distances of the
\* points i..j to the line l
RECURSIVE squaredError(_, _, _, _)
squaredError(l, pts, i, j) ==
  IF i > j THEN F(0)
  ELSE FAdd(distSqToLine(l, FP(At(pts, i))), squaredError(l, pts, i + 1, j))

\* the line with normal (a, b) through the centroid of the points i..j
centroidLine(a, b, fs, i, j) ==
  Line(F(a), F(b),
       FDiv(F(-(a * rangeSum(fs.X, i, j) + b * rangeSum(fs.Y, i, j))), F(j - i + 1)))

\* C17: for i <= j with the points i..j not all coincident, no line has a
\* smaller sum of squared perpendicular distances to the points i..j than
\* fitLine(i, j).
C17_FitLineMinimises ==
  \A i \in 0..Last : \A j \in i..Last :
    (\E k \in i..j : At(points, k) # At(points, i)) =>
      \A a, b \in (-MaxNormal)..MaxNormal :
        (a # 0 \/ b # 0) =>
          FLeq(squaredError(fitLine(sums, i, j), points, i, j),
               squaredError(centroidLine(a, b, sums, i, j), points, i, j))

\* C18: for every j >= 1 the subpath from tags[j].next to j is simple: no
\* two of its segments [k, k+1] and [m, m+1] with k + 1 < m share a point.
C18_EdgeSubpathSimple ==
  \A j \in 1..Last :
    \A k \in Tag(j).next..(j - 1) : \A m \in (k + 2)..(j - 1) :
      ~segmentsMeet(At(points, k), At(points, k + 1), At(points, m), At(points, m + 1))

\* the indices with an edge to j: j - 1 and every index accepted in the
\* scan of j
edgesInto(j) == { j - 1 } \cup At(simp.accepted, j)

\* the number of edges of a shortest route from index 0 to j, where S is
\* the set of the indices that a route of at most n edges leads to
RECURSIVE routeLength(_, _, _)
routeLength(j, n, S) ==
  IF j \in S THEN n
  ELSE routeLength(j, n + 1, S \cup { k \in 1..Last : edgesInto(k) \cap S # { } })

shortestRoute(j) == routeLength(j, 0, { 0 })

\* C19: for every j >= 1, tags[j].dist is 1 plus the least tags[i].dist
\* over i = j - 1 and every i accepted in the scan of j, and so it is the
\* number of edges of a shortest route from 0 to j along consecutive and
\* accepted edges.
C19_DistIsShortestRoute ==
  \A j \in 1..Last :
    /\ \E i \in edgesInto(j) :
         /\ Tag(j).dist = 1 + Tag(i).dist
         /\ \A k \in edgesInto(j) : Tag(i).dist <= Tag(k).dist
    /\ Tag(j).dist = shortestRoute(j)

\* an index was reached over an accepted edge that shortens its route
C19_Witness ==
  \E j \in 2..Last :
    /\ Tag(j).next < j - 1
    /\ Tag(j).dist < 1 + Tag(j - 1).dist
    /\ Cardinality(At(simp.accepted, j)) >= 2

\* C20: an append adds exactly one tag, with cut false, and leaves dist
\* and next of every older tag as they were; the cut flag of an older tag
\* j never goes back to false and is set only by the scan of the new
\* index, which is greater than j; a step that appends nothing and clears
\* nothing changes no tag.
C20_TagsFrozen ==
  [][ /\ Len(points') = Len(points) + 1 =>
           /\ Len(simp'.tags) = Len(simp.tags) + 1
           /\ ~simp'.tags[Len(simp'.tags)].cut
           /\ \A j \in 1..Len(simp.tags) :
                /\ simp'.tags[j].dist = simp.tags[j].dist
                /\ simp'.tags[j].next = simp.tags[j].next
                /\ simp.tags[j].cut => simp'.tags[j].cut
                /\ (simp'.tags[j].cut /\ ~simp.tags[j].cut) =>
                      (simp'.cutBy[j] = Len(simp.tags) /\ j - 1 < Len(simp.tags))
      /\ points' = points => simp'.tags = simp.tags ]_vars

\* the scan of the newest index has set the cut flag of an older tag that
\* has a dist and a next of its own
C20_Witness ==
  \E j \in 1..(Last - 1) :
    /\ Tag(j).cut
    /\ At(simp.cutBy, j) = Last
    /\ Tag(j).dist > 0

\* the number of times getSimplified() reads tags[j].next on its way from
\* index j to index 0, counted for at most n reads
RECURSIVE walkSteps(_, _)
walkSteps(j, n) ==
  IF j = 0 \/ n = 0 THEN 0 ELSE 1 + walkSteps(Tag(j).next, n - 1)

\* C21: tags[0] has dist 0 and no predecessor; for every j >= 1,
\* 0 <= tags[j].next < j and tags[j].dist = tags[tags[j].next].dist + 1; the
\* predecessor walk of getSimplified() from the last index reaches index 0
\* after tags[last].dist steps, and its result has one point per step and
\* one more.
C21_ChainToStart ==
  /\ Last >= 0 => (Tag(0).dist = 0 /\ Tag(0).next = -1)
  /\ \A j \in 1..Last :
       /\ 0 <= Tag(j).next /\ Tag(j).next < j
       /\ Tag(j).dist = Tag(Tag(j).next).dist + 1
       /\ walkSteps(j, j + 1) = Tag(j).dist
  /\ Last >= 1 => Len(Simplified) = Tag(Last).dist + 1

\* the walk from the last index takes at least two steps, one of them over
\* an edge longer than one segment
C21_Witness ==
  /\ Last >= 3
  /\ Tag(Last).dist >= 2
  /\ \E j \in route(Last) : j >= 1 /\ Tag(j).next < j - 1

\* the verdicts after which the scan examines no lower index
Final == { "cut", "threshold", "pioneer_strong" }

\* the verdicts after which the scan goes on to i - 1
Onward == { "pioneer_weak", "accept" }

\* C22: after the append of index j the trace is the sentinel 'accept'
\* followed by one verdict per scanned index, entry k for i = j - k, with at
\* most j + 1 entries; 'cut', 'threshold' and 'pioneer_strong' occur only as
\* the last entry, and after 'pioneer_weak' or 'accept' the scan goes on, so a
\* trace that ends with one of them has reached i = 0.  Entry k is tied to
\* i = j - k by the cut flag of the index a final 'cut' stands for and by the
\* error recorded at each extend, which is over the threshold exactly at a
\* 'threshold' entry.
C22_TraceShape ==
  last.op = "addPoint" =>
    LET t == simp.trace
        n == Len(simp.trace)
    IN  /\ n >= 1 /\ n <= Last + 1
        /\ t[1] = "accept"
        /\ \A k \in 2..n : t[k] \in Final \cup Onward
        /\ \A k \in 2..(n - 1) : t[k] \in Onward
        /\ (n = 1 \/ t[n] \in Onward) => n = Last + 1
        /\ (n >= 2 /\ t[n] = "cut") => Tag(Last - (n - 1)).cut
        /\ Len(simp.errs) = IF n >= 2 /\ t[n] = "cut" THEN n - 1 ELSE n
        /\ \A k \in 2..Len(simp.errs) :
             FLess(thresholdSq, simp.errs[k]) <=> t[k] = "threshold"

\* an append whose scan went past at least one index and stopped before
\* index 0
C22_Witness ==
  /\ last.op = "addPoint"
  /\ Len(simp.trace) >= 3
  /\ Len(simp.trace) < Last + 1
  /\ simp.trace[Len(simp.trace)] \in Final

\* the term a point adds to each of the five running totals
term(p, which) ==
  CASE which = "X"  -> p[1]
    [] which = "Y"  -> p[2]
    [] which = "XX" -> p[1] * p[1]
    [] which = "YY" -> p[2] * p[2]
    [] which = "XY" -> p[1] * p[2]

\* the total of one term over the points 0..k-1
RECURSIVE total(_, _, _)
total(pts, k, which) ==
  IF k = 0 THEN 0 ELSE total(pts, k - 1, which) + term(At(pts, k - 1), which)

\* a simplifier with tags and length s, and its fitter with length n and
\* prefix sums fs, are in step with the path
inStep(s, n, fs) ==
  /\ Len(s.tags) = Len(points)
  /\ s.pathLength = Len(points)
  /\ n = Len(points)
  /\ \A which \in { "X", "Y", "XX", "YY", "XY" } :
       /\ Len(fs[which]) = Len(points) + 1
       /\ \A k \in 0..Len(points) : At(fs[which], k) = total(points, k, which)

\* C23: after every append, clear and construction, tags.length, the
\* simplifier's pathLength, the fitter's pathLength and path.length() are
\* equal, and each of the five prefix-sum arrays has path.length() + 1
\* entries, entry 0 being 0 and entry k the sum over the points 0..k-1; for
\* the simplifier the path was created with and for one attached later.
C23_DerivedStateInStep ==
  /\ inStep(simp, fitLen, sums)
  /\ second.made => inStep(second.simp, second.fitLen, second.sums)

\* a path that was cleared and holds points again, with a second simplifier
\* that was constructed on a path holding points
C23_Witness ==
  /\ cleared
  /\ second.made
  /\ Len(points) >= 2
  /\ last.op = "addPoint"
  /\ At(sums.XY, Len(points)) > 0

====
